---- MODULE Spec2Model ----
(***************************************************************************)
(* The rules engine of the trivia game: GameState (src/game/state.rs), the  *)
(* action handler GameActionHandler (src/game/actions.rs), the rule         *)
(* predicates GameRules (src/game/rules.rs), the scoring helper             *)
(* ScoringEngine (src/game/scoring.rs) and EventState (src/game/events.rs). *)
(*                                                                         *)
(* Every handler is a pure operator from a GameState record and the        *)
(* action's fields to the set of its possible outcomes (more than one only *)
(* where the code draws at random).  An outcome is the state the handler   *)
(* leaves behind and the Result it returns.  Vec and VecDeque are          *)
(* sequences; indices are 1-based here and 0-based in the source.          *)
(***************************************************************************)
EXTENDS Integers, Sequences, FiniteSets, TLC

VARIABLES state, host_calls

vars == <<state, host_calls>>

-----------------------------------------------------------------------------
(* Bounds of the model and program constants *)

MaxTeams == 2

MaxPlayTeams == 3

MaxQuestions == 1

MaxHostCalls == 1

MaxHistory == 1

MaxEventQuestions == 8

MaxEventHostCalls == 2
MaxEventTeams == 2
MaxStealTeams == 3
MaxStealCalls == 2

HighValueThreshold == 500

TriggerInterval == 4

StealPercent == 20
I32_MAX == 2147483647

NumCategories == 1

NumRows == 2

-----------------------------------------------------------------------------
(* Option<T>: None, or the value itself *)

None == "None"

GameEvent == {"DoublePoints", "HardReset", "ReverseQuestion", "ScoreSteal"}

Names == {"A"}

(* team ids an action may name: 0 is never assigned to a team *)
TeamIds == 0..MaxPlayTeams

(* clue coordinates an action may name: one row past the end of each category *)
Coords == {<<c, r>> : c \in 1..NumCategories, r \in 1..(NumRows + 1)}

NewPoints == {-100, 1000}

-----------------------------------------------------------------------------
(* domain.rs *)

Team(id, name, score) == [id |-> id, name |-> name, score |-> score]

Clue(id, points) ==
    [id |-> id, points |-> points, question |-> "Q", answer |-> "A",
     revealed |-> FALSE, solved |-> FALSE]

(* The board the game is built with: the first row's clue is worth the    *)
(* threshold, the rows below one point more each                          *)
RowPoints == [r \in 1..NumRows |-> HighValueThreshold + r - 1]

InitialBoard ==
    [c \in 1..NumCategories |->
        [name |-> "Category",
         clues |-> [r \in 1..NumRows |-> Clue((c - 1) * NumRows + r, RowPoints[r])]]]

-----------------------------------------------------------------------------
(* state.rs *)

Lobby == [tag |-> "Lobby"]

Selecting(team_id) == [tag |-> "Selecting", team_id |-> team_id]

Showing(clue, owner_team_id, attempt_count, max_attempts) ==
    [tag |-> "Showing", clue |-> clue, owner_team_id |-> owner_team_id,
     attempt_count |-> attempt_count, max_attempts |-> max_attempts]

Steal(clue, queue, current, owner_team_id) ==
    [tag |-> "Steal", clue |-> clue, queue |-> queue, current |-> current,
     owner_team_id |-> owner_team_id]

Resolved(clue, next_team_id) ==
    [tag |-> "Resolved", clue |-> clue, next_team_id |-> next_team_id]

Finished == [tag |-> "Finished"]

NewEventState ==
    [questions_answered |-> 0, active_event |-> None, queued_event |-> None,
     event_history |-> <<>>, animation_playing |-> FALSE, last_steal |-> <<>>]

NewGameState(board) ==
    [board |-> board, teams |-> <<>>, phase |-> Lobby, active_team |-> 0,
     event_state |-> NewEventState]

HasClue(s, clue) ==
    /\ clue[1] \in DOMAIN s.board
    /\ clue[2] \in DOMAIN s.board[clue[1]].clues

get_clue(s, clue) == s.board[clue[1]].clues[clue[2]]

(* is_clue_available that only checks the clue exists *)
is_clue_available_ignore_solved(s, clue) == HasClue(s, clue)

is_clue_available(s, clue) == HasClue(s, clue) /\ ~get_clue(s, clue).solved

(* state.board.categories[..].clues[..] = c *)
SetClue(s, clue, c) ==
    [s EXCEPT !.board[clue[1]].clues[clue[2]] = c]

TeamIdSeq(teams) == [i \in DOMAIN teams |-> teams[i].id]

TeamIdsOf(teams) == {teams[i].id : i \in DOMAIN teams}

team_exists(teams, team_id) == team_id \in TeamIdsOf(teams)

(* teams.iter().position(|t| t.id == team_id): the first index, 0 for None *)
position(teams, team_id) ==
    IF team_exists(teams, team_id)
    THEN CHOOSE i \in DOMAIN teams :
            /\ teams[i].id = team_id
            /\ \A j \in DOMAIN teams : teams[j].id = team_id => i <= j
    ELSE 0

get_team_score(teams, team_id) == teams[position(teams, team_id)].score

-----------------------------------------------------------------------------
(* events.rs *)

(* should_trigger_event that does not look at the active event *)
should_trigger_event_ignore_active(es) ==
    /\ es.questions_answered > 0
    /\ es.questions_answered % TriggerInterval = 0
    /\ es.queued_event = None

should_trigger_event(es) ==
    /\ es.questions_answered > 0
    /\ es.questions_answered % TriggerInterval = 0
    /\ es.active_event = None
    /\ es.queued_event = None

increment_question_count(es) ==
    [es EXCEPT !.questions_answered = @ + 1]

(* activation that also empties the queued slot *)
activate_event_take_queued(es, event) ==
    [es EXCEPT !.event_history = Append(@, event), !.active_event = event,
               !.queued_event = None]

activate_event(es, event) ==
    [es EXCEPT !.event_history = Append(@, event), !.active_event = event]

(* deactivation that also drops the event's entry from the history *)
deactivate_event_pop_history(es) ==
    [es EXCEPT !.active_event = None,
               !.event_history = IF @ = <<>> THEN @ ELSE SubSeq(@, 1, Len(@) - 1)]

deactivate_event(es) == [es EXCEPT !.active_event = None]

is_event_active(es, event) == es.active_event = event

(* queue_event that activates the event at once *)
queue_event_and_activate(es, event) ==
    [es EXCEPT !.queued_event = event,
               !.active_event = event,
               !.event_history = Append(@, event)]

queue_event(es, event) == [es EXCEPT !.queued_event = event]

set_animation_playing(es, playing) == [es EXCEPT !.animation_playing = playing]

(* EventConfig::new: the enabled events, in order *)
enabled_events == <<"DoublePoints", "HardReset", "ReverseQuestion", "ScoreSteal">>

(* the weight table of get_random_event *)
EventWeight(e) ==
    CASE e = "DoublePoints" -> 0
      [] e = "ReverseQuestion" -> 0
      [] e = "ScoreSteal" -> 0
      [] e = "HardReset" -> 100

(* The events get_random_event can return: a weighted draw returns an event *)
(* of positive weight; with every weight zero the draw is uniform.          *)
get_random_event ==
    LET all == {enabled_events[i] : i \in DOMAIN enabled_events}
    IN  IF \A e \in all : EventWeight(e) = 0
        THEN all
        ELSE {e \in all : EventWeight(e) > 0}

(* the award left at the base points *)
DoublePoints_calculate_points_single(base_points) == base_points

DoublePoints_calculate_points(base_points) == base_points * 2

(* calculate_penalty that forgets to double *)
DoublePoints_calculate_penalty_single(base_points) == base_points

DoublePoints_calculate_penalty(base_points) == base_points * 2

(* ReverseQuestionEvent::apply_to_clue: mem::swap(question, answer) *)
apply_to_clue(c) == [c EXCEPT !.question = c.answer, !.answer = c.question]

restore_clue(c) == [c EXCEPT !.question = c.answer, !.answer = c.question]

-----------------------------------------------------------------------------
(* scoring.rs *)

award_points(teams, team_id, points) ==
    IF team_exists(teams, team_id)
    THEN [teams EXCEPT ![position(teams, team_id)].score = @ + points]
    ELSE teams

deduct_points(teams, team_id, points) ==
    IF team_exists(teams, team_id)
    THEN [teams EXCEPT ![position(teams, team_id)].score = @ - points]
    ELSE teams

MaxOf(S) == CHOOSE x \in S : \A y \in S : y <= x

(* the next id taken from the first team instead of the maximum *)
next_team_id_from_first(teams) ==
    (IF teams = <<>> THEN 0 ELSE teams[1].id) + 1

next_team_id(teams) ==
    (IF teams = <<>> THEN 0 ELSE MaxOf(TeamIdsOf(teams))) + 1

add_team(teams, name) == Append(teams, Team(next_team_id(teams), name, 0))

(* rotation by id value instead of by list position *)
rotate_active_team_by_id(teams, current_active) ==
    IF teams = <<>> THEN current_active
    ELSE IF team_exists(teams, current_active + 1)
         THEN current_active + 1
         ELSE teams[1].id

rotate_active_team(teams, current_active) ==
    IF teams = <<>> THEN current_active
    ELSE IF team_exists(teams, current_active)
         THEN teams[(position(teams, current_active) % Len(teams)) + 1].id
         ELSE teams[1].id

-----------------------------------------------------------------------------
(* rules.rs *)

can_select_clue(s, clue) ==
    /\ s.phase.tag = "Selecting"
    /\ is_clue_available(s, clue)

(* can_start_game without its phase check *)
can_start_game_any_phase(s) == s.teams # <<>>

can_start_game(s) ==
    /\ s.phase.tag = "Lobby"
    /\ s.teams # <<>>

(* can_add_team open until the game is finished *)
can_add_team_until_finished(s) == s.phase.tag # "Finished"

can_add_team(s) == s.phase.tag = "Lobby"

RECURSIVE Orderings(_)
(* every ordering of the members of a finite set, as sequences *)
Orderings(S) ==
    IF S = {} THEN {<<>>}
    ELSE UNION {{<<x>> \o p : p \in Orderings(S \ {x})} : x \in S}

(* get_steal_queue that forgets to leave the owner out *)
get_steal_queue_all_teams(s, excluding_team) ==
    LET others == TeamIdSeq(s.teams)
    IN  {[i \in DOMAIN others |-> others[p[i]]] : p \in Orderings(DOMAIN others)}

(* the queues get_steal_queue can return: the other teams' ids, shuffled *)
get_steal_queue(s, excluding_team) ==
    LET others == SelectSeq(TeamIdSeq(s.teams), LAMBDA id : id # excluding_team)
    IN  {[i \in DOMAIN others |-> others[p[i]]] : p \in Orderings(DOMAIN others)}

(* validate_team_action that checks the phase but not who is acting *)
validate_team_action_any_actor(s, team_id, action, clue) ==
    /\ team_exists(s.teams, team_id)
    /\ CASE action = "SelectClue" ->
              /\ s.phase.tag = "Selecting"
              /\ can_select_clue(s, clue)
         [] action \in {"AnswerCorrect", "AnswerIncorrect"} ->
              s.phase.tag = "Showing"
         [] action = "StealAttempt" ->
              s.phase.tag = "Steal"
         [] OTHER -> FALSE

(* the arms of validate_team_action the handler uses; action is the name *)
validate_team_action(s, team_id, action, clue) ==
    /\ team_exists(s.teams, team_id)
    /\ CASE action = "SelectClue" ->
              /\ s.phase.tag = "Selecting"
              /\ team_id = s.phase.team_id
              /\ can_select_clue(s, clue)
         [] action \in {"AnswerCorrect", "AnswerIncorrect"} ->
              /\ s.phase.tag = "Showing"
              /\ team_id = s.phase.owner_team_id
         [] action = "StealAttempt" ->
              /\ s.phase.tag = "Steal"
              /\ team_id = s.phase.current
         [] OTHER -> FALSE

(* the CloseClue arm accepting every phase *)
is_action_valid_close_clue_any_phase(s) == TRUE

(* the CloseClue arm of is_action_valid *)
is_action_valid_close_clue(s) == s.phase.tag = "Resolved"

-----------------------------------------------------------------------------
(* actions.rs: results and effects *)

Success(s, new_phase) ==
    [state |-> s, kind |-> "Success", new_phase |-> new_phase, effects |-> <<>>]

StateChanged(s, new_phase, effects) ==
    [state |-> s, kind |-> "StateChanged", new_phase |-> new_phase,
     effects |-> effects]

SuccessOrChanged(s, new_phase, effects) ==
    IF effects = <<>> THEN Success(s, new_phase)
    ELSE StateChanged(s, new_phase, effects)

InvalidAction(s, action) ==
    [state |-> s, kind |-> "InvalidAction", action |-> action]

EventAlreadyActive(s) ==
    [state |-> s, kind |-> "EventAlreadyActive", action |-> "TriggerEvent"]

IsError(o) == o.kind \in {"InvalidAction", "EventAlreadyActive"}

ScoreChanged(team_id, delta) ==
    [type |-> "ScoreChanged", team_id |-> team_id, delta |-> delta]

ClueRevealed(clue) == [type |-> "ClueRevealed", clue |-> clue]

ClueSolved(clue) == [type |-> "ClueSolved", clue |-> clue]

FlashEffect(effect_type) == [type |-> "FlashEffect", effect_type |-> effect_type]

EventTriggered(event) == [type |-> "EventTriggered", event |-> event]

EventQueued(event) == [type |-> "EventQueued", event |-> event]

EventAnimation(event) == [type |-> "EventAnimation", animation_type |-> event]

ScoreReset == [type |-> "ScoreReset"]

ScoreStealApplied(context) == [type |-> "ScoreStealApplied", context |-> context]

ManualScoreAdjustment(team_id, old_score, new_score) ==
    [type |-> "ManualScoreAdjustment", team_id |-> team_id,
     old_score |-> old_score, new_score |-> new_score]

get_question_points(s, clue) ==
    IF HasClue(s, clue) THEN get_clue(s, clue).points ELSE 0

(* calculate_max_attempts with the comparison off by one *)
calculate_max_attempts_inclusive(points) ==
    IF points >= HighValueThreshold THEN 2 ELSE 1

calculate_max_attempts(points) ==
    IF points > HighValueThreshold THEN 2 ELSE 1

-----------------------------------------------------------------------------
(* actions.rs: setup *)

(* handle_add_team pushing the team before it checks the phase *)
handle_add_team_push_first(s, name) ==
    LET team_id == next_team_id(s.teams)
        s1 == [s EXCEPT !.teams = add_team(s.teams, name)]
        s2 == IF s1.phase.tag = "Lobby" /\ s1.active_team = 0
              THEN [s1 EXCEPT !.active_team = team_id]
              ELSE s1
    IN  IF ~can_add_team(s) THEN {InvalidAction(s1, "AddTeam")}
        ELSE {Success(s2, s2.phase)}

handle_add_team(s, name) ==
    IF ~can_add_team(s) THEN {InvalidAction(s, "AddTeam")}
    ELSE LET team_id == next_team_id(s.teams)
             s1 == [s EXCEPT !.teams = add_team(s.teams, name)]
             s2 == IF s1.phase.tag = "Lobby" /\ s1.active_team = 0
                   THEN [s1 EXCEPT !.active_team = team_id]
                   ELSE s1
         IN  {Success(s2, s2.phase)}

handle_start_game(s) ==
    IF ~can_start_game(s) THEN {InvalidAction(s, "StartGame")}
    ELSE LET first_team_id == s.teams[1].id
             new_phase == Selecting(first_team_id)
         IN  {Success([s EXCEPT !.active_team = first_team_id,
                                !.phase = new_phase], new_phase)}

handle_select_clue(s, clue, team_id) ==
    IF ~validate_team_action(s, team_id, "SelectClue", clue)
    THEN {InvalidAction(s, "SelectClue")}
    ELSE LET swap == is_event_active(s.event_state, "ReverseQuestion")
                       /\ HasClue(s, clue)
             s1 == IF swap THEN SetClue(s, clue, apply_to_clue(get_clue(s, clue)))
                   ELSE s
             effects == IF swap THEN <<[type |-> "ReverseQuestionActivated"]>>
                        ELSE <<>>
             points == get_question_points(s1, clue)
             max_attempts == calculate_max_attempts(points)
             new_phase == Showing(clue, team_id, 1, max_attempts)
         IN  {SuccessOrChanged([s1 EXCEPT !.phase = new_phase], new_phase, effects)}

-----------------------------------------------------------------------------
(* actions.rs: answering *)

(* The body of "if let Some(c) = ...get_mut(clue)" of handle_answer_correct: *)
(* reveal and solve, award (doubled under Double Points), end the event.     *)
answer_correct_clue(s, clue, team_id) ==
    LET c1 == [get_clue(s, clue) EXCEPT !.revealed = TRUE, !.solved = TRUE]
        points == IF is_event_active(s.event_state, "DoublePoints")
                  THEN DoublePoints_calculate_points(c1.points)
                  ELSE c1.points
        awarded == team_exists(s.teams, team_id)
        teams1 == award_points(s.teams, team_id, points)
        es1 == IF is_event_active(s.event_state, "DoublePoints")
               THEN deactivate_event(s.event_state)
               ELSE s.event_state
        rq == is_event_active(es1, "ReverseQuestion")
        c2 == IF rq THEN restore_clue(c1) ELSE c1
        es2 == IF rq THEN deactivate_event(es1) ELSE es1
    IN  [state |-> [SetClue(s, clue, c2) EXCEPT !.teams = teams1,
                                                !.event_state = es2],
         effects |-> <<ClueRevealed(clue), ClueSolved(clue)>>
                     \o (IF awarded THEN <<ScoreChanged(team_id, points)>>
                         ELSE <<>>)]

handle_answer_correct(s, clue, team_id) ==
    IF ~validate_team_action(s, team_id, "AnswerCorrect", clue)
    THEN {InvalidAction(s, "AnswerCorrect")}
    ELSE LET r == IF HasClue(s, clue) THEN answer_correct_clue(s, clue, team_id)
                  ELSE [state |-> s, effects |-> <<>>]
             s1 == r.state
             effects == r.effects \o <<FlashEffect("Correct")>>
             next == rotate_active_team(s1.teams, s1.active_team)
             new_phase == Resolved(clue, next)
         IN  {StateChanged([s1 EXCEPT !.active_team = next, !.phase = new_phase],
                           new_phase, effects)}

handle_final_attempt_incorrect(s, clue, team_id, effects) ==
    LET penalty == IF is_event_active(s.event_state, "DoublePoints")
                   THEN DoublePoints_calculate_penalty(get_clue(s, clue).points)
                   ELSE get_clue(s, clue).points
        deducted == HasClue(s, clue) /\ team_exists(s.teams, team_id)
        s1 == IF deducted
              THEN [s EXCEPT !.teams = deduct_points(s.teams, team_id, penalty)]
              ELSE s
        effects1 == IF deducted THEN effects \o <<ScoreChanged(team_id, -penalty)>>
                    ELSE effects
    IN  {LET queue == IF shuffled = <<>> THEN <<>> ELSE Tail(shuffled)
             current == IF shuffled = <<>> THEN team_id ELSE Head(shuffled)
             new_phase == Steal(clue, queue, current, team_id)
         IN  StateChanged([s1 EXCEPT !.phase = new_phase], new_phase, effects1)
         : shuffled \in get_steal_queue(s1, team_id)}

(* the handler granting one attempt more than the maximum *)
handle_answer_incorrect_one_more(s, clue, team_id) ==
    IF ~validate_team_action(s, team_id, "AnswerIncorrect", clue)
    THEN {InvalidAction(s, "AnswerIncorrect")}
    ELSE IF s.phase.tag = "Showing"
    THEN LET effects == <<FlashEffect("Incorrect")>>
         IN  IF s.phase.attempt_count <= s.phase.max_attempts
             THEN LET new_phase == Showing(clue, team_id,
                                           s.phase.attempt_count + 1,
                                           s.phase.max_attempts)
                  IN  {StateChanged([s EXCEPT !.phase = new_phase],
                                    new_phase, effects)}
             ELSE handle_final_attempt_incorrect(s, clue, team_id, effects)
    ELSE {InvalidAction(s, "AnswerIncorrect")}

handle_answer_incorrect(s, clue, team_id) ==
    IF ~validate_team_action(s, team_id, "AnswerIncorrect", clue)
    THEN {InvalidAction(s, "AnswerIncorrect")}
    ELSE IF s.phase.tag = "Showing"
    THEN LET effects == <<FlashEffect("Incorrect")>>
         IN  IF s.phase.attempt_count < s.phase.max_attempts
             THEN LET new_phase == Showing(clue, team_id,
                                           s.phase.attempt_count + 1,
                                           s.phase.max_attempts)
                  IN  {StateChanged([s EXCEPT !.phase = new_phase],
                                    new_phase, effects)}
             ELSE handle_final_attempt_incorrect(s, clue, team_id, effects)
    ELSE {InvalidAction(s, "AnswerIncorrect")}

-----------------------------------------------------------------------------
(* actions.rs: stealing *)

(* the body of "if let Some(c)" of the correct branch of handle_steal_attempt *)
steal_correct_clue(s, clue, team_id) ==
    LET c1 == [get_clue(s, clue) EXCEPT !.revealed = TRUE, !.solved = TRUE]
        points == IF is_event_active(s.event_state, "DoublePoints")
                  THEN DoublePoints_calculate_points(c1.points)
                  ELSE c1.points
        awarded == team_exists(s.teams, team_id)
        teams1 == award_points(s.teams, team_id, points)
        es1 == IF is_event_active(s.event_state, "DoublePoints")
               THEN deactivate_event(s.event_state)
               ELSE s.event_state
        rq == is_event_active(es1, "ReverseQuestion")
        c2 == IF rq THEN restore_clue(c1) ELSE c1
        es2 == IF rq THEN deactivate_event(es1) ELSE es1
    IN  [state |-> [SetClue(s, clue, c2) EXCEPT !.teams = teams1,
                                                !.event_state = es2],
         effects |-> <<ClueRevealed(clue), ClueSolved(clue)>>
                     \o (IF awarded THEN <<ScoreChanged(team_id, points)>>
                         ELSE <<>>)]

(* the exhausted steal leaving the clue open *)
steal_exhausted_clue_left_open(s, clue) ==
    [state |-> s, effects |-> <<>>]

(* the body of "if let Some(c)" once the steal queue is exhausted *)
steal_exhausted_clue(s, clue) ==
    LET c0 == get_clue(s, clue)
        rq == is_event_active(s.event_state, "ReverseQuestion")
        c1 == IF rq THEN restore_clue(c0) ELSE c0
        es1 == IF rq THEN deactivate_event(s.event_state) ELSE s.event_state
        c2 == [c1 EXCEPT !.solved = TRUE]
    IN  [state |-> [SetClue(s, clue, c2) EXCEPT !.event_state = es1],
         effects |-> <<ClueSolved(clue)>>]

handle_steal_attempt(s, clue, team_id, correct) ==
    IF ~validate_team_action(s, team_id, "StealAttempt", clue)
    THEN {InvalidAction(s, "StealAttempt")}
    ELSE IF s.phase.tag = "Steal"
    THEN IF correct
         THEN LET r == IF HasClue(s, clue) THEN steal_correct_clue(s, clue, team_id)
                       ELSE [state |-> s, effects |-> <<>>]
                  s1 == r.state
                  effects == r.effects \o <<FlashEffect("Correct")>>
                  next == rotate_active_team(s1.teams, s1.active_team)
                  new_phase == Resolved(clue, next)
              IN  {StateChanged([s1 EXCEPT !.active_team = next,
                                           !.phase = new_phase],
                                new_phase, effects)}
         ELSE IF s.phase.queue # <<>>
         THEN LET s1 == [s EXCEPT !.phase.current = Head(s.phase.queue),
                                  !.phase.queue = Tail(s.phase.queue)]
              IN  {StateChanged(s1, s1.phase, <<FlashEffect("Incorrect")>>)}
         ELSE LET r == IF HasClue(s, clue) THEN steal_exhausted_clue(s, clue)
                       ELSE [state |-> s, effects |-> <<>>]
                  s1 == r.state
                  effects == <<FlashEffect("Incorrect")>> \o r.effects
                  next == rotate_active_team(s1.teams, s1.active_team)
                  new_phase == Resolved(clue, next)
              IN  {StateChanged([s1 EXCEPT !.active_team = next,
                                           !.phase = new_phase],
                                new_phase, effects)}
    ELSE {InvalidAction(s, "StealAttempt")}

-----------------------------------------------------------------------------
(* actions.rs: events *)

MinOf(S) == CHOOSE x \in S : \A y \in S : x <= y

(* the search without the final comparison of min_i with max_i *)
lowest_and_highest_team_indices_no_tie_check(teams) ==
    IF Len(teams) < 2 THEN <<>>
    ELSE LET min_i == MinOf({i \in DOMAIN teams :
                                \A j \in DOMAIN teams : teams[i].score <= teams[j].score})
             max_i == MinOf({i \in DOMAIN teams :
                                \A j \in DOMAIN teams : teams[j].score <= teams[i].score})
         IN  <<min_i, max_i>>

(* <<min_i, max_i>>, the first lowest- and the first highest-scoring team, *)
(* or <<>> for None                                                        *)
lowest_and_highest_team_indices(teams) ==
    IF Len(teams) < 2 THEN <<>>
    ELSE LET min_i == MinOf({i \in DOMAIN teams :
                                \A j \in DOMAIN teams : teams[i].score <= teams[j].score})
             max_i == MinOf({i \in DOMAIN teams :
                                \A j \in DOMAIN teams : teams[j].score <= teams[i].score})
         IN  IF min_i = max_i THEN <<>> ELSE <<min_i, max_i>>

(* f32 arithmetic: a value is m * 2^e with an integer m of at most 24    *)
(* significant bits, and every operation rounds to the nearest such value, *)
(* ties to the even m                                                      *)
round_ties_even(q, rem, half) ==
    IF rem > half \/ (rem = half /\ q % 2 = 1) THEN q + 1 ELSE q

(* `score as f32` for a positive score *)
i32_as_f32(n) ==
    LET e == MinOf({k \in 0..7 : n \div 2^k < 2^24})
    IN  IF e = 0 THEN [m |-> n, e |-> 0]
        ELSE [m |-> round_ties_even(n \div 2^e, n % 2^e, 2^(e - 1)), e |-> e]

(* x * 0.20: the f32 nearest to 0.20 is 13421773 / 2^26, and 13421773 is  *)
(* 3276 * 2^12 + 3277; the exact product x.m * 13421773 is hi * 2^24 + lo *)
f32_mul_0_20(x) ==
    LET mh == x.m \div 2^12
        ml == x.m % 2^12
        mid == mh * 3277 + ml * 3276
        t == ml * 3277 + (mid % 2^12) * 2^12
        lo == t % 2^24
        hi == mh * 3276 + mid \div 2^12 + t \div 2^24
        k == MinOf({b \in 0..24 : hi \div 2^b = 0})
    IN  IF k = 0 THEN [m |-> lo, e |-> x.e - 26]
        ELSE [m |-> round_ties_even(hi * 2^(24 - k) + lo \div 2^k,
                                    lo % 2^k, 2^(k - 1)),
              e |-> x.e + k - 26]

(* x.floor() as i32 for a positive x below 2^31 *)
f32_floor_as_i32(x) ==
    IF x.e >= 0 THEN x.m * 2^(x.e) ELSE x.m \div 2^(-x.e)

(* ((victim.score as f32) * 0.20).floor() as i32, then .max(0): the       *)
(* product of a score that is not positive is not positive either         *)
steal_amount(score) ==
    IF score > 0 THEN f32_floor_as_i32(f32_mul_0_20(i32_as_f32(score))) ELSE 0

(* i32::saturating_sub and i32::saturating_add of an amount >= 0 *)
saturating_sub(a, b) == IF a < (-I32_MAX - 1) + b THEN -I32_MAX - 1 ELSE a - b

saturating_add(a, b) == IF a > I32_MAX - b THEN I32_MAX ELSE a + b

(* the Score Steal block of handle_close_clue and of handle_trigger_event *)
apply_score_steal(s) ==
    LET idx == lowest_and_highest_team_indices(s.teams)
    IN  IF idx = <<>> THEN [state |-> s, effects |-> <<>>]
        ELSE LET thief == s.teams[idx[1]]
                 victim == s.teams[idx[2]]
                 amount == steal_amount(victim.score)
                 context == [thief_id |-> thief.id, thief_name |-> thief.name,
                             victim_id |-> victim.id, victim_name |-> victim.name,
                             amount |-> amount]
             IN  [state |-> [s EXCEPT !.teams[idx[2]].score = saturating_sub(@, amount),
                                      !.teams[idx[1]].score = saturating_add(@, amount),
                                      !.event_state.last_steal = <<context>>],
                  effects |-> <<ScoreChanged(victim.id, -amount),
                                ScoreChanged(thief.id, amount),
                                ScoreStealApplied(context)>>]

(* the reset stopping after the first team *)
reset_first_score(teams) ==
    [i \in DOMAIN teams |-> IF i = 1 THEN [teams[i] EXCEPT !.score = 0] ELSE teams[i]]

(* for team in &mut state.teams { team.score = 0 } *)
reset_all_scores(teams) == [i \in DOMAIN teams |-> [teams[i] EXCEPT !.score = 0]]

handle_close_clue(s, clue, next_team) ==
    IF ~is_action_valid_close_clue(s) THEN {InvalidAction(s, "CloseClue")}
    ELSE LET s1 == [s EXCEPT !.event_state = increment_question_count(@)]
             new_phase == Selecting(next_team)
         IN  IF should_trigger_event(s1.event_state)
             THEN {LET s2 == [s1 EXCEPT !.event_state = queue_event(@, event)]
                       r == CASE event = "HardReset" ->
                                   [state |-> [s2 EXCEPT !.teams = reset_all_scores(@)],
                                    effects |-> <<ScoreReset>>]
                              [] event = "ScoreSteal" -> apply_score_steal(s2)
                              [] OTHER -> [state |-> s2, effects |-> <<>>]
                   IN  StateChanged([r.state EXCEPT !.phase = new_phase], new_phase,
                                    r.effects \o <<EventQueued(event)>>)
                   : event \in get_random_event}
             ELSE {Success([s1 EXCEPT !.phase = new_phase], new_phase)}

handle_queue_event(s, event) ==
    LET s1 == [s EXCEPT !.event_state = queue_event(@, event)]
    IN  IF event = "HardReset"
        THEN {StateChanged([s1 EXCEPT !.teams = reset_all_scores(@)], s1.phase,
                           <<EventQueued(event), ScoreReset>>)}
        ELSE {StateChanged(s1, s1.phase, <<EventQueued(event)>>)}

(* the handler without the exemption of Hard Reset and Score Steal *)
handle_play_event_animation_activate_all(s, event) ==
    LET s1 == [s EXCEPT !.event_state = set_animation_playing(@, TRUE)]
        s2 == [s1 EXCEPT !.event_state = activate_event(@, event)]
    IN  {StateChanged(s2, s2.phase, <<EventAnimation(event)>>)}

handle_play_event_animation(s, event) ==
    LET s1 == [s EXCEPT !.event_state = set_animation_playing(@, TRUE)]
        s2 == IF event \notin {"HardReset", "ScoreSteal"}
              THEN [s1 EXCEPT !.event_state = activate_event(@, event)]
              ELSE s1
    IN  {StateChanged(s2, s2.phase, <<EventAnimation(event)>>)}

handle_trigger_event(s, event) ==
    IF s.event_state.active_event # None THEN {EventAlreadyActive(s)}
    ELSE LET s1 == [s EXCEPT !.event_state = activate_event(@, event)]
             effects == <<EventTriggered(event), EventAnimation(event)>>
             r == CASE event = "HardReset" ->
                         [state |-> [s1 EXCEPT !.teams = reset_all_scores(@)],
                          effects |-> <<ScoreReset>>]
                    [] event = "DoublePoints" ->
                         [state |-> s1,
                          effects |-> <<[type |-> "DoublePointsActivated"]>>]
                    [] event = "ReverseQuestion" ->
                         [state |-> s1,
                          effects |-> <<[type |-> "ReverseQuestionActivated"]>>]
                    [] event = "ScoreSteal" -> apply_score_steal(s1)
         IN  {StateChanged(r.state, r.state.phase, effects \o r.effects)}

(* the acknowledgement ending the event as ResolveEvent does *)
handle_acknowledge_event_deactivate(s) ==
    LET s1 == [s EXCEPT !.event_state = deactivate_event(@)]
    IN  {Success(s1, s1.phase)}

handle_acknowledge_event(s) == {Success(s, s.phase)}

handle_resolve_event(s) ==
    LET s1 == [s EXCEPT !.event_state = deactivate_event(@)]
    IN  {Success(s1, s1.phase)}

handle_return_to_config(s) == {Success(s, Finished)}

(* the adjustment adding new_points to the score instead of setting it *)
handle_manual_points_adjustment_add(s, team_id, new_points) ==
    IF team_exists(s.teams, team_id)
    THEN LET i == position(s.teams, team_id)
             old_score == s.teams[i].score
             s1 == [s EXCEPT !.teams[i].score = @ + new_points]
         IN  {StateChanged(s1, s1.phase,
                           <<ManualScoreAdjustment(team_id, old_score, new_points)>>)}
    ELSE {InvalidAction(s, "ManualPointsAdjustment")}

handle_manual_points_adjustment(s, team_id, new_points) ==
    IF team_exists(s.teams, team_id)
    THEN LET i == position(s.teams, team_id)
             old_score == s.teams[i].score
             s1 == [s EXCEPT !.teams[i].score = new_points]
         IN  {StateChanged(s1, s1.phase,
                           <<ManualScoreAdjustment(team_id, old_score, new_points)>>)}
    ELSE {InvalidAction(s, "ManualPointsAdjustment")}

-----------------------------------------------------------------------------
(* GameActionHandler::handle: the actions a caller can submit, and the     *)
(* dispatch on the action's variant                                        *)

GameAction ==
         [type : {"AddTeam"}, name : Names]
    \cup [type : {"StartGame", "AcknowledgeEvent", "ResolveEvent", "ReturnToConfig"}]
    \cup [type : {"SelectClue", "AnswerCorrect", "AnswerIncorrect"},
          clue : Coords, team_id : TeamIds]
    \cup [type : {"StealAttempt"}, clue : Coords, team_id : TeamIds,
          correct : BOOLEAN]
    \cup [type : {"CloseClue"}, clue : Coords, next_team_id : TeamIds]
    \cup [type : {"QueueEvent", "PlayEventAnimation", "TriggerEvent"},
          event : GameEvent]
    \cup [type : {"ManualPointsAdjustment"}, team_id : TeamIds,
          new_points : NewPoints]

handle(s, a) ==
    CASE a.type = "AddTeam" -> handle_add_team(s, a.name)
      [] a.type = "StartGame" -> handle_start_game(s)
      [] a.type = "SelectClue" -> handle_select_clue(s, a.clue, a.team_id)
      [] a.type = "AnswerCorrect" -> handle_answer_correct(s, a.clue, a.team_id)
      [] a.type = "AnswerIncorrect" -> handle_answer_incorrect(s, a.clue, a.team_id)
      [] a.type = "StealAttempt" ->
            handle_steal_attempt(s, a.clue, a.team_id, a.correct)
      [] a.type = "CloseClue" -> handle_close_clue(s, a.clue, a.next_team_id)
      [] a.type = "QueueEvent" -> handle_queue_event(s, a.event)
      [] a.type = "PlayEventAnimation" -> handle_play_event_animation(s, a.event)
      [] a.type = "TriggerEvent" -> handle_trigger_event(s, a.event)
      [] a.type = "AcknowledgeEvent" -> handle_acknowledge_event(s)
      [] a.type = "ResolveEvent" -> handle_resolve_event(s)
      [] a.type = "ReturnToConfig" -> handle_return_to_config(s)
      [] a.type = "ManualPointsAdjustment" ->
            handle_manual_points_adjustment(s, a.team_id, a.new_points)

-----------------------------------------------------------------------------
(* GameEngine: one GameState, driven only through handle_action.           *)
(* host_calls counts the event and score-override calls submitted so far;  *)
(* it bounds the exploration and is read by no handler.                    *)

WithinBounds(s, max_teams) ==
    /\ Len(s.teams) <= max_teams
    /\ s.event_state.questions_answered <= MaxQuestions
    /\ Len(s.event_state.event_history) <= MaxHistory

Init ==
    /\ state = NewGameState(InitialBoard)
    /\ host_calls = 0

ActionsOf(type) == {a \in GameAction : a.type = type}

(* what GameEngine::handle_action(a) can do in a game of at most max_teams *)
(* teams: the state it leaves and the Result it returns                    *)
handle_action(a, max_teams) ==
    {o \in handle(state, a) : WithinBounds(o.state, max_teams)}

AddTeam ==
    \E a \in ActionsOf("AddTeam") : \E o \in handle_action(a, MaxTeams) :
        /\ state' = o.state
        /\ UNCHANGED host_calls

StartGame ==
    \E a \in ActionsOf("StartGame") : \E o \in handle_action(a, MaxTeams) :
        /\ state' = o.state
        /\ UNCHANGED host_calls

SelectClue ==
    \E a \in ActionsOf("SelectClue") : \E o \in handle_action(a, MaxTeams) :
        /\ state' = o.state
        /\ UNCHANGED host_calls

AnswerCorrect ==
    \E a \in ActionsOf("AnswerCorrect") : \E o \in handle_action(a, MaxTeams) :
        /\ state' = o.state
        /\ UNCHANGED host_calls

AnswerIncorrect ==
    \E a \in ActionsOf("AnswerIncorrect") : \E o \in handle_action(a, MaxTeams) :
        /\ state' = o.state
        /\ UNCHANGED host_calls

StealAttempt ==
    \E a \in ActionsOf("StealAttempt") : \E o \in handle_action(a, MaxTeams) :
        /\ state' = o.state
        /\ UNCHANGED host_calls

CloseClue ==
    \E a \in ActionsOf("CloseClue") : \E o \in handle_action(a, MaxTeams) :
        /\ state' = o.state
        /\ UNCHANGED host_calls

QueueEvent ==
    \E a \in ActionsOf("QueueEvent") : \E o \in handle_action(a, MaxTeams) :
        /\ host_calls < MaxHostCalls
        /\ state' = o.state
        /\ host_calls' = host_calls + 1

PlayEventAnimation ==
    \E a \in ActionsOf("PlayEventAnimation") : \E o \in handle_action(a, MaxTeams) :
        /\ host_calls < MaxHostCalls
        /\ state' = o.state
        /\ host_calls' = host_calls + 1

TriggerEvent ==
    \E a \in ActionsOf("TriggerEvent") : \E o \in handle_action(a, MaxTeams) :
        /\ host_calls < MaxHostCalls
        /\ state' = o.state
        /\ host_calls' = host_calls + 1

AcknowledgeEvent ==
    \E a \in ActionsOf("AcknowledgeEvent") : \E o \in handle_action(a, MaxTeams) :
        /\ host_calls < MaxHostCalls
        /\ state' = o.state
        /\ host_calls' = host_calls + 1

ResolveEvent ==
    \E a \in ActionsOf("ResolveEvent") : \E o \in handle_action(a, MaxTeams) :
        /\ host_calls < MaxHostCalls
        /\ state' = o.state
        /\ host_calls' = host_calls + 1

ReturnToConfig ==
    \E a \in ActionsOf("ReturnToConfig") : \E o \in handle_action(a, MaxTeams) :
        /\ state' = o.state
        /\ UNCHANGED host_calls

ManualPointsAdjustment ==
    \E a \in ActionsOf("ManualPointsAdjustment") : \E o \in handle_action(a, MaxTeams) :
        /\ host_calls < MaxHostCalls
        /\ state' = o.state
        /\ host_calls' = host_calls + 1

Next ==
    \/ AddTeam
    \/ StartGame
    \/ SelectClue
    \/ AnswerCorrect
    \/ AnswerIncorrect
    \/ StealAttempt
    \/ CloseClue
    \/ QueueEvent
    \/ PlayEventAnimation
    \/ TriggerEvent
    \/ AcknowledgeEvent
    \/ ResolveEvent
    \/ ReturnToConfig
    \/ ManualPointsAdjustment

(* every action, with at most MaxTeams teams and MaxHostCalls host calls *)
Spec == Init /\ [][Next]_vars

-----------------------------------------------------------------------------
(* A game of up to MaxPlayTeams teams: the playing actions, with the host  *)
(* switching events on and off by TriggerEvent and ResolveEvent            *)

PlayAddTeam ==
    \E a \in ActionsOf("AddTeam") : \E o \in handle_action(a, MaxPlayTeams) :
        /\ state' = o.state
        /\ UNCHANGED host_calls

PlayStartGame ==
    \E a \in ActionsOf("StartGame") : \E o \in handle_action(a, MaxPlayTeams) :
        /\ state' = o.state
        /\ UNCHANGED host_calls

PlaySelectClue ==
    \E a \in ActionsOf("SelectClue") : \E o \in handle_action(a, MaxPlayTeams) :
        /\ state' = o.state
        /\ UNCHANGED host_calls

PlayAnswerCorrect ==
    \E a \in ActionsOf("AnswerCorrect") : \E o \in handle_action(a, MaxPlayTeams) :
        /\ state' = o.state
        /\ UNCHANGED host_calls

PlayAnswerIncorrect ==
    \E a \in ActionsOf("AnswerIncorrect") : \E o \in handle_action(a, MaxPlayTeams) :
        /\ state' = o.state
        /\ UNCHANGED host_calls

PlayStealAttempt ==
    \E a \in ActionsOf("StealAttempt") : \E o \in handle_action(a, MaxPlayTeams) :
        /\ state' = o.state
        /\ UNCHANGED host_calls

PlayCloseClue ==
    \E a \in ActionsOf("CloseClue") : \E o \in handle_action(a, MaxPlayTeams) :
        /\ state' = o.state
        /\ UNCHANGED host_calls

PlayTriggerEvent ==
    \E a \in ActionsOf("TriggerEvent") : \E o \in handle_action(a, MaxPlayTeams) :
        /\ state' = o.state
        /\ UNCHANGED host_calls

PlayResolveEvent ==
    \E a \in ActionsOf("ResolveEvent") : \E o \in handle_action(a, MaxPlayTeams) :
        /\ state' = o.state
        /\ UNCHANGED host_calls

NextPlay ==
    \/ PlayAddTeam
    \/ PlayStartGame
    \/ PlaySelectClue
    \/ PlayAnswerCorrect
    \/ PlayAnswerIncorrect
    \/ PlayStealAttempt
    \/ PlayCloseClue
    \/ PlayTriggerEvent
    \/ PlayResolveEvent

SpecPlay == Init /\ [][NextPlay]_vars

-----------------------------------------------------------------------------
(* Properties.  A property of a handler is stated on its outcomes: for the *)
(* reachable state and every action a caller can submit, on every outcome  *)
(* o of handle(state, a).                                                  *)

BoardCoords == {<<c, r>> : c \in 1..NumCategories, r \in 1..NumRows}

(* the scores of the teams other than team_id, in list order *)
OtherScores(teams, team_id) ==
    [i \in DOMAIN teams |-> IF teams[i].id = team_id THEN 0 ELSE teams[i].score]

(* C1: whenever a handler returns an error (InvalidAction or               *)
(* EventAlreadyActive), the state it leaves is the state it was given:     *)
(* teams, scores, board, phase, active team and event state.               *)
C1_ErrorLeavesStateUntouched ==
    \A a \in GameAction : \A o \in handle(state, a) :
        IsError(o) => o.state = state

(* a started game with an event active, where both kinds of error are returned *)
C1_Witness ==
    /\ state.phase.tag = "Steal"
    /\ state.event_state.active_event = "DoublePoints"
    /\ state.teams[1].score < 0
    /\ \E a \in ActionsOf("TriggerEvent") : \E o \in handle(state, a) :
          o.kind = "EventAlreadyActive"
    /\ \E a \in ActionsOf("AddTeam") : \E o \in handle(state, a) :
          o.kind = "InvalidAction"

(* C2: StartGame fails exactly when there is no team or the phase is not   *)
(* Lobby; when it succeeds the active team is the first team of the list   *)
(* and the phase is Selecting for that team.                               *)
C2_StartGame ==
    \A o \in handle_start_game(state) :
        /\ IsError(o) <=> (state.teams = <<>> \/ state.phase.tag # "Lobby")
        /\ IsError(o) => o.kind = "InvalidAction"
        /\ ~IsError(o) =>
              /\ o.state.active_team = state.teams[1].id
              /\ o.state.phase = Selecting(state.teams[1].id)
              /\ o.new_phase = Selecting(state.teams[1].id)

(* the state StartGame leaves with two teams in the lobby *)
C2_Witness ==
    /\ Len(state.teams) = 2
    /\ state.phase = Selecting(state.teams[1].id)
    /\ state.active_team = state.teams[1].id
    /\ state.event_state.questions_answered = 0

(* C3: the team ids are 1, 2, 3, ... in list order (so pairwise distinct   *)
(* and strictly increasing, the first being 1), and AddTeam appends a team *)
(* whose id is the largest existing id plus one.                           *)
C3_TeamIds ==
    /\ \A i \in DOMAIN state.teams : state.teams[i].id = i
    /\ \A i, j \in DOMAIN state.teams :
          i < j => state.teams[i].id < state.teams[j].id
    /\ \A a \in ActionsOf("AddTeam") : \A o \in handle(state, a) :
          ~IsError(o) =>
              /\ Len(o.state.teams) = Len(state.teams) + 1
              /\ SubSeq(o.state.teams, 1, Len(state.teams)) = state.teams
              /\ \A i \in DOMAIN state.teams :
                    state.teams[i].id < o.state.teams[Len(o.state.teams)].id
              /\ o.state.teams[Len(o.state.teams)].id =
                    (IF state.teams = <<>> THEN 0
                     ELSE MaxOf(TeamIdsOf(state.teams))) + 1

(* three teams added *)
C3_Witness ==
    /\ Len(state.teams) = 3
    /\ TeamIdSeq(state.teams) = <<1, 2, 3>>

(* C4: AddTeam succeeds only in Lobby; once the game has left Lobby it     *)
(* never returns there and no step changes the list of team ids.           *)
C4_TeamsFixedAfterStart ==
    /\ [](\A a \in ActionsOf("AddTeam") : \A o \in handle(state, a) :
            ~IsError(o) => state.phase.tag = "Lobby")
    /\ [][state.phase.tag # "Lobby" =>
            /\ state'.phase.tag # "Lobby"
            /\ TeamIdSeq(state'.teams) = TeamIdSeq(state.teams)]_vars

(* a clue has been played and closed after the start, with both teams listed *)
C4_Witness ==
    /\ state.phase.tag = "Selecting"
    /\ state.event_state.questions_answered = 1
    /\ TeamIdSeq(state.teams) = <<1, 2>>

(* C5: a successful SelectClue leaves Showing with the selecting team as   *)
(* owner, attempt counter 1, and maximum attempts 2 if the clue's points   *)
(* exceed 500 and 1 otherwise (500 gives 1, 501 gives 2).                  *)
C5_SelectClue ==
    \A a \in ActionsOf("SelectClue") : \A o \in handle(state, a) :
        ~IsError(o) =>
            LET points == get_clue(state, a.clue).points
                max == IF points > 500 THEN 2 ELSE 1
            IN  /\ o.state.phase = Showing(a.clue, a.team_id, 1, max)
                /\ points = 500 => o.state.phase.max_attempts = 1
                /\ points = 501 => o.state.phase.max_attempts = 2

(* the 501-point clue has just been selected by the second team *)
C5_Witness ==
    /\ state.phase.tag = "Showing"
    /\ HasClue(state, state.phase.clue)
    /\ get_clue(state, state.phase.clue).points = 501
    /\ state.phase.owner_team_id = 2
    /\ state.phase.attempt_count = 1
    /\ state.phase.max_attempts = 2

(* C6: while a clue is shown with maximum attempts 2, the owner's first    *)
(* AnswerIncorrect leaves Showing with the counter at 2 and every score    *)
(* unchanged; the owner's second AnswerIncorrect moves to Steal and takes  *)
(* exactly the points of the clue it names (twice that under Double        *)
(* Points) from the owner and nothing from anyone else.                    *)
C6_TwoAttempts ==
    (state.phase.tag = "Showing" /\ state.phase.max_attempts = 2) =>
        \A a \in ActionsOf("AnswerIncorrect") :
            a.team_id = state.phase.owner_team_id =>
                \A o \in handle(state, a) :
                    LET owner == state.phase.owner_team_id
                        points == get_question_points(state, a.clue)
                        penalty == IF state.event_state.active_event = "DoublePoints"
                                   THEN 2 * points ELSE points
                    IN  /\ ~IsError(o)
                        /\ state.phase.attempt_count = 1 =>
                              /\ o.state.phase.tag = "Showing"
                              /\ o.state.phase.attempt_count = 2
                              /\ o.state.phase.max_attempts = 2
                              /\ o.state.phase.owner_team_id = owner
                              /\ o.state.teams = state.teams
                        /\ state.phase.attempt_count = 2 =>
                              /\ o.state.phase.tag = "Steal"
                              /\ o.state.phase.owner_team_id = owner
                              /\ get_team_score(o.state.teams, owner) =
                                    get_team_score(state.teams, owner) - penalty
                              /\ OtherScores(o.state.teams, owner) =
                                    OtherScores(state.teams, owner)
                        /\ state.phase.attempt_count \in {1, 2}

(* the owner has missed the 501-point clue twice under Double Points *)
C6_Witness ==
    /\ state.phase.tag = "Steal"
    /\ state.phase.clue = <<1, 2>>
    /\ state.event_state.active_event = "DoublePoints"
    /\ state.event_state.questions_answered = 0
    /\ get_team_score(state.teams, state.phase.owner_team_id) = -1002

(* C7: a clue's solved flag, once set, is never cleared; SelectClue on a   *)
(* solved clue is rejected, by whatever team; and the clue an owner's      *)
(* AnswerCorrect names ends with revealed and solved both set.             *)
C7_SolvedIsFinal ==
    /\ [][\A k \in BoardCoords :
            get_clue(state, k).solved => get_clue(state', k).solved]_vars
    /\ [](\A a \in ActionsOf("SelectClue") : \A o \in handle(state, a) :
            (HasClue(state, a.clue) /\ get_clue(state, a.clue).solved)
                => o.kind = "InvalidAction")
    /\ [](\A a \in ActionsOf("AnswerCorrect") : \A o \in handle(state, a) :
            (~IsError(o) /\ HasClue(state, a.clue)) =>
                /\ get_clue(o.state, a.clue).revealed
                /\ get_clue(o.state, a.clue).solved)

(* a clue answered correctly and closed; its team is asked to select again *)
C7_Witness ==
    /\ state.phase.tag = "Selecting"
    /\ team_exists(state.teams, state.phase.team_id)
    /\ get_clue(state, <<1, 1>>).solved
    /\ get_clue(state, <<1, 1>>).revealed
    /\ state.teams[1].score = 500

(* C8: every solved clue is also revealed. *)
C8_SolvedImpliesRevealed ==
    \A k \in BoardCoords :
        get_clue(state, k).solved => get_clue(state, k).revealed

(* C9: SelectClue succeeds only for the team of the Selecting phase,       *)
(* AnswerCorrect and AnswerIncorrect only for the owner of the Showing     *)
(* phase, StealAttempt only for the current contender of the Steal phase;  *)
(* the same action by any other team or in any other phase returns         *)
(* InvalidAction.                                                          *)
C9_ActorChecks ==
    \A a \in GameAction : \A o \in handle(state, a) :
        LET allowed ==
              CASE a.type = "SelectClue" ->
                      /\ state.phase.tag = "Selecting"
                      /\ a.team_id = state.phase.team_id
                [] a.type \in {"AnswerCorrect", "AnswerIncorrect"} ->
                      /\ state.phase.tag = "Showing"
                      /\ a.team_id = state.phase.owner_team_id
                [] a.type = "StealAttempt" ->
                      /\ state.phase.tag = "Steal"
                      /\ a.team_id = state.phase.current
                [] OTHER -> TRUE
        IN  /\ ~IsError(o) => allowed
            /\ ~allowed => o.kind = "InvalidAction"

(* a steal in a three-team game: two teams that exist are not the contender *)
C9_Witness ==
    /\ state.phase.tag = "Steal"
    /\ Len(state.teams) = 3
    /\ Len(state.phase.queue) = 1
    /\ state.phase.current # state.phase.owner_team_id

(* the team after team_id in list order, wrapping to the first *)
TeamAfter(teams, team_id) ==
    LET i == CHOOSE j \in DOMAIN teams : teams[j].id = team_id
    IN  teams[IF i = Len(teams) THEN 1 ELSE i + 1].id

(* C10: whenever an answer or a steal resolves the clue, the next_team of  *)
(* Resolved and the new active team are the team just after the clue's     *)
(* owner in list order.                                                    *)
C10_NextAfterOwner ==
    (state.phase.tag \in {"Showing", "Steal"}) =>
        \A a \in ActionsOf("AnswerCorrect") \cup ActionsOf("StealAttempt") :
            \A o \in handle(state, a) :
                (~IsError(o) /\ o.state.phase.tag = "Resolved") =>
                    /\ o.state.phase.next_team_id =
                          TeamAfter(state.teams, state.phase.owner_team_id)
                    /\ o.state.active_team =
                          TeamAfter(state.teams, state.phase.owner_team_id)

(* C11: a CloseClue that succeeds in Resolved{clue, next_team} leaves the  *)
(* phase Selecting for the next_team recorded in that Resolved phase.      *)
C11_CloseGoesToRecordedNext ==
    state.phase.tag = "Resolved" =>
        \A a \in ActionsOf("CloseClue") : \A o \in handle(state, a) :
            ~IsError(o) => o.state.phase = Selecting(state.phase.next_team_id)

-----------------------------------------------------------------------------
(* rotate_active_team on its own: any list of teams with distinct ids, in  *)
(* any order, and any id, in the list or not.                              *)

RotateIds == 1..(MaxPlayTeams + 1)

(* the lists of up to MaxPlayTeams teams with distinct ids drawn from ids *)
TeamLists(ids) ==
    UNION {{[i \in DOMAIN order |-> Team(order[i], "A", 0)] : order \in Orderings(S)}
           : S \in {S \in SUBSET ids : Cardinality(S) <= MaxPlayTeams}}

RotateInit ==
    /\ state \in {[NewGameState(InitialBoard) EXCEPT !.teams = teams,
                                                     !.active_team = id]
                  : teams \in TeamLists(RotateIds), id \in {0} \cup RotateIds}
    /\ host_calls = 0

(* state.active_team = rotate_active_team(&state.teams, state.active_team) *)
RotateActiveTeam ==
    /\ host_calls < MaxHostCalls
    /\ state' = [state EXCEPT !.active_team =
                                  rotate_active_team(state.teams, state.active_team)]
    /\ host_calls' = host_calls + 1

NextRotate == RotateActiveTeam

SpecRotate == RotateInit /\ [][NextRotate]_vars

(* C12: for a non-empty list, rotate_active_team returns the id of the     *)
(* team that follows the given id in list order, the first team's after    *)
(* the last; for an id that is not in the list it returns the first        *)
(* team's id.                                                              *)
C12_Rotate ==
    state.teams # <<>> =>
        \A id \in {0} \cup RotateIds :
            LET teams == state.teams
                next == rotate_active_team(teams, id)
            IN  /\ team_exists(teams, id) =>
                      \E i \in DOMAIN teams :
                          /\ teams[i].id = id
                          /\ i < Len(teams) => next = teams[i + 1].id
                          /\ i = Len(teams) => next = teams[1].id
                /\ ~team_exists(teams, id) => next = teams[1].id

(* a rotation has been applied to a three-team list that is not in id     *)
(* order and has left the first team active                               *)
C12_Witness ==
    /\ host_calls = 1
    /\ TeamIdSeq(state.teams) = <<3, 1, 4>>
    /\ state.active_team = 3

-----------------------------------------------------------------------------
(* the ids of the teams other than team_id, in every order *)
OtherTeamOrders(teams, team_id) ==
    LET others == TeamIdsOf(teams) \ {team_id}
    IN  {order \in [1..Cardinality(others) -> others] :
            \A i, j \in DOMAIN order : i # j => order[i] # order[j]}

(* C13: when the owner's final incorrect answer opens the steal, the       *)
(* current contender followed by the queue lists every team other than     *)
(* the owner exactly once and no other id, and every such order is a       *)
(* possible outcome.                                                       *)
C13_StealOrder ==
    (state.phase.tag = "Showing"
        /\ state.phase.attempt_count >= state.phase.max_attempts) =>
        \A a \in ActionsOf("AnswerIncorrect") :
            a.team_id = state.phase.owner_team_id =>
                {<<o.state.phase.current>> \o o.state.phase.queue :
                    o \in {o \in handle(state, a) : ~IsError(o)}}
                  = OtherTeamOrders(state.teams, state.phase.owner_team_id)

(* C14: in every Steal phase the current contender is not the clue's owner *)
(* and the owner is not in the queue.                                      *)
C14_OwnerNeverSteals ==
    state.phase.tag = "Steal" =>
        /\ state.phase.current # state.phase.owner_team_id
        /\ \A i \in DOMAIN state.phase.queue :
              state.phase.queue[i] # state.phase.owner_team_id

-----------------------------------------------------------------------------
(* A game on the board Board::default_with_dimensions builds, where row r *)
(* is worth r * 100 points, played without events.                        *)

default_with_dimensions(num_categories, num_rows) ==
    [c \in 1..num_categories |->
        [name |-> "Category",
         clues |-> [r \in 1..num_rows |->
                      [Clue((c - 1) * num_rows + r, r * 100)
                          EXCEPT !.question = "", !.answer = ""]]]]

InitDefault ==
    /\ state = NewGameState(default_with_dimensions(NumCategories, NumRows))
    /\ host_calls = 0

NextDefault ==
    \/ PlayAddTeam
    \/ PlayStartGame
    \/ PlaySelectClue
    \/ PlayAnswerCorrect
    \/ PlayAnswerIncorrect
    \/ PlayStealAttempt
    \/ PlayCloseClue

SpecDefault == InitDefault /\ [][NextDefault]_vars

(* the 200-point clue of the default board *)
Clue200 == <<1, 2>>

(* C15: two teams, the first of them selecting the 200-point clue of a    *)
(* fresh game with no event active.  Its incorrect answer leaves Steal    *)
(* with the second team as current contender and an empty queue; the      *)
(* second team's correct steal then leaves the second team at 200, the    *)
(* first at -200, the clue solved and the phase Resolved with next_team   *)
(* the second team, the rotation of the original active team.             *)
C15_StealScenario ==
    (/\ TeamIdSeq(state.teams) = <<1, 2>>
     /\ state.phase = Showing(Clue200, 1, 1, 1)
     /\ get_clue(state, Clue200).points = 200
     /\ state.active_team = 1
     /\ state.event_state.active_event = None
     /\ state.event_state.questions_answered = 0) =>
        \A o1 \in handle_answer_incorrect(state, Clue200, 1) :
            /\ ~IsError(o1)
            /\ o1.state.phase = Steal(Clue200, <<>>, 2, 1)
            /\ \A o2 \in handle_steal_attempt(o1.state, Clue200, 2, TRUE) :
                  /\ ~IsError(o2)
                  /\ get_team_score(o2.state.teams, 2) = 200
                  /\ get_team_score(o2.state.teams, 1) = -200
                  /\ get_clue(o2.state, Clue200).solved
                  /\ o2.state.phase = Resolved(Clue200, 2)
                  /\ rotate_active_team(state.teams, 1) = 2

(* the scenario has been played to its end *)
C15_Witness ==
    /\ TeamIdSeq(state.teams) = <<1, 2>>
    /\ state.phase = Resolved(Clue200, 2)
    /\ get_clue(state, Clue200).points = 200
    /\ get_clue(state, Clue200).solved
    /\ get_team_score(state.teams, 1) = -200
    /\ get_team_score(state.teams, 2) = 200
    /\ state.event_state.questions_answered = 0

(* C16: an incorrect StealAttempt by the current contender changes no     *)
(* team's score.  With a non-empty queue the phase stays Steal on the     *)
(* same clue and owner, the front of the queue becoming the current       *)
(* contender and leaving the queue; with an empty queue the clue the      *)
(* attempt names is marked solved and the phase becomes Resolved.         *)
C16_IncorrectSteal ==
    state.phase.tag = "Steal" =>
        \A a \in ActionsOf("StealAttempt") :
            (a.team_id = state.phase.current /\ ~a.correct) =>
                \A o \in handle(state, a) :
                    /\ ~IsError(o)
                    /\ o.state.teams = state.teams
                    /\ state.phase.queue # <<>> =>
                          /\ o.state.phase =
                                Steal(state.phase.clue, Tail(state.phase.queue),
                                      Head(state.phase.queue),
                                      state.phase.owner_team_id)
                          /\ o.state.board = state.board
                    /\ state.phase.queue = <<>> =>
                          /\ o.state.phase.tag = "Resolved"
                          /\ HasClue(state, a.clue) =>
                                get_clue(o.state, a.clue).solved

(* both other teams of a three-team game have missed their steal: the     *)
(* clue is solved and only its owner's score has moved                    *)
C16_Witness ==
    /\ Len(state.teams) = 3
    /\ state.phase.tag = "Resolved"
    /\ state.phase.clue = <<1, 1>>
    /\ get_clue(state, <<1, 1>>).solved
    /\ state.event_state.questions_answered = 0
    /\ [i \in DOMAIN state.teams |-> state.teams[i].score] = <<-500, 0, 0>>

-----------------------------------------------------------------------------
(* A game of one or two teams played clue after clue, every clue answered *)
(* by its owner as in the integration test of events.rs, with the host's  *)
(* event actions: the game in which the questions-answered counter        *)
(* reaches the multiples of four.                                         *)

EventBoard == default_with_dimensions(1, MaxEventQuestions)

InitEvents ==
    /\ state = NewGameState(EventBoard)
    /\ host_calls = 0

EventsAddTeam ==
    \E name \in Names : \E o \in handle_add_team(state, name) :
        /\ Len(o.state.teams) <= MaxEventTeams
        /\ state' = o.state
        /\ UNCHANGED host_calls

EventsStartGame ==
    \E o \in handle_start_game(state) :
        /\ state' = o.state
        /\ UNCHANGED host_calls

(* the team whose turn it is selects the clues of the category from the   *)
(* top, (0, i) in turn                                                    *)
EventsSelectClue ==
    /\ state.phase.tag = "Selecting"
    /\ state.event_state.questions_answered < MaxEventQuestions
    /\ \E o \in handle_select_clue(
                    state, <<1, state.event_state.questions_answered + 1>>,
                    state.phase.team_id) :
          /\ state' = o.state
          /\ UNCHANGED host_calls

EventsAnswerCorrect ==
    /\ state.phase.tag = "Showing"
    /\ \E o \in handle_answer_correct(state, state.phase.clue,
                                      state.phase.owner_team_id) :
          /\ state' = o.state
          /\ UNCHANGED host_calls

(* CloseClue with the clue and the next team of the Resolved phase *)
EventsCloseClue ==
    /\ state.phase.tag = "Resolved"
    /\ \E o \in handle_close_clue(state, state.phase.clue,
                                  state.phase.next_team_id) :
          /\ state' = o.state
          /\ UNCHANGED host_calls

(* PlayEventAnimation for the queued event, submitted when no animation   *)
(* is playing                                                             *)
EventsPlayEventAnimation ==
    /\ host_calls < MaxEventHostCalls
    /\ state.event_state.queued_event # None
    /\ ~state.event_state.animation_playing
    /\ \E o \in handle_play_event_animation(state,
                                            state.event_state.queued_event) :
          /\ state' = o.state
          /\ host_calls' = host_calls + 1

EventsTriggerEvent ==
    /\ host_calls < MaxEventHostCalls
    /\ \E event \in GameEvent : \E o \in handle_trigger_event(state, event) :
          /\ state' = o.state
          /\ host_calls' = host_calls + 1

(* ResolveEvent, submitted once an event has been triggered or played *)
EventsResolveEvent ==
    /\ host_calls < MaxEventHostCalls
    /\ \/ state.event_state.active_event # None
       \/ state.event_state.animation_playing
    /\ \E o \in handle_resolve_event(state) :
          /\ state' = o.state
          /\ host_calls' = host_calls + 1

NextEvents ==
    \/ EventsAddTeam
    \/ EventsStartGame
    \/ EventsSelectClue
    \/ EventsAnswerCorrect
    \/ EventsCloseClue
    \/ EventsPlayEventAnimation
    \/ EventsTriggerEvent
    \/ EventsResolveEvent

SpecEvents == InitEvents /\ [][NextEvents]_vars

(* the result carries an EventQueued effect *)
HasEventQueued(o) ==
    \E i \in DOMAIN o.effects : o.effects[i].type = "EventQueued"

(* C17: a successful CloseClue adds exactly one to the questions-answered  *)
(* counter, and puts an event in the queued slot exactly when the new      *)
(* count is positive and divisible by four and no event was active or      *)
(* queued; no other action, and no rejected one, changes the counter.      *)
C17_CounterAndTrigger ==
    \A a \in GameAction : \A o \in handle(state, a) :
        LET es == state.event_state
            count == es.questions_answered + 1
            fires == /\ count > 0
                     /\ count % 4 = 0
                     /\ es.active_event = None
                     /\ es.queued_event = None
        IN  IF a.type = "CloseClue" /\ ~IsError(o)
            THEN /\ o.state.event_state.questions_answered = count
                 /\ fires => /\ HasEventQueued(o)
                             /\ o.state.event_state.queued_event \in GameEvent
                 /\ ~fires => /\ ~HasEventQueued(o)
                              /\ o.state.event_state.queued_event = es.queued_event
            ELSE o.state.event_state.questions_answered = es.questions_answered

(* the fourth clue has just been closed and an event is queued *)
C17_Witness ==
    /\ state.phase.tag = "Selecting"
    /\ state.event_state.questions_answered = 4
    /\ state.event_state.queued_event \in GameEvent
    /\ host_calls = 0

(* C18: when the trigger fires during CloseClue, the chosen event is only  *)
(* queued: the active event is still empty after the call and the event    *)
(* history is as long as it was.                                           *)
C18_QueuedNotActive ==
    \A a \in ActionsOf("CloseClue") : \A o \in handle(state, a) :
        (~IsError(o) /\ HasEventQueued(o)) =>
            /\ o.state.event_state.queued_event \in GameEvent
            /\ o.state.event_state.active_event = None
            /\ o.state.event_state.event_history = state.event_state.event_history

(* the trigger has fired at the fourth close: an event is queued, none is  *)
(* active and the history is empty                                         *)
C18_Witness ==
    /\ state.event_state.questions_answered = 4
    /\ state.event_state.queued_event = "HardReset"
    /\ state.event_state.active_event = None
    /\ state.event_state.event_history = <<>>
    /\ ~state.event_state.animation_playing

(* C19: the queued slot is filled when the trigger fires; a queued         *)
(* Double-Points or Reverse-Question event becomes the active event when   *)
(* PlayEventAnimation is submitted for it; and once the queued event has   *)
(* been played, resolving it leaves the queued slot empty.                 *)
C19_QueuedLifecycle ==
    LET es == state.event_state
    IN  /\ \A a \in ActionsOf("CloseClue") : \A o \in handle(state, a) :
              (~IsError(o) /\ should_trigger_event(increment_question_count(es)))
                  => o.state.event_state.queued_event \in GameEvent
        /\ es.queued_event \in {"DoublePoints", "ReverseQuestion"} =>
              \A o \in handle_play_event_animation(state, es.queued_event) :
                  o.state.event_state.active_event = es.queued_event
        /\ (es.queued_event # None /\ es.animation_playing) =>
              \A o \in handle_resolve_event(state) :
                  o.state.event_state.queued_event = None

(* the event the trigger queued has been played and then resolved: the two *)
(* host calls made were PlayEventAnimation, which alone sets the animation *)
(* flag, and a ResolveEvent after it (no event was ever activated by a     *)
(* manual trigger, which would show in the history)                        *)
PlayedAndResolved ==
    /\ host_calls = 2
    /\ state.event_state.animation_playing
    /\ state.event_state.active_event = None
    /\ state.event_state.event_history = <<>>

(* C20: once the event queued at an earlier multiple of four has been      *)
(* played and resolved, the CloseClue that brings the counter to a later   *)
(* multiple of four queues a new event.                                    *)
C20_TriggersEveryFour ==
    LET es == state.event_state
        count == es.questions_answered + 1
    IN  (/\ state.phase.tag = "Resolved"
         /\ count > 4
         /\ count % 4 = 0
         /\ PlayedAndResolved) =>
            \A a \in ActionsOf("CloseClue") : \A o \in handle(state, a) :
                ~IsError(o) => HasEventQueued(o)


-----------------------------------------------------------------------------
-----------------------------------------------------------------------------
AllScoresZero(s) == \A i \in DOMAIN s.teams : s.teams[i].score = 0

(* C22: whenever Hard Reset is the event the automatic trigger of          *)
(* CloseClue queues, the event QueueEvent queues, or the event a           *)
(* successful TriggerEvent activates, every team's score is 0 in the state *)
(* the action leaves.                                                      *)
C22_HardResetZeroesScores ==
    /\ state.phase.tag = "Resolved" =>
          \A n \in TeamIds :
              \A o \in handle_close_clue(state, state.phase.clue, n) :
                  (/\ ~IsError(o)
                   /\ HasEventQueued(o)
                   /\ o.state.event_state.queued_event = "HardReset")
                  => AllScoresZero(o.state)
    /\ \A o \in handle_queue_event(state, "HardReset") :
          /\ ~IsError(o)
          /\ o.state.event_state.queued_event = "HardReset"
          /\ AllScoresZero(o.state)
    /\ \A o \in handle_trigger_event(state, "HardReset") :
          ~IsError(o) =>
              /\ o.state.event_state.active_event = "HardReset"
              /\ AllScoresZero(o.state)

(* the fourth clue has just been closed: both teams had won clues, the     *)
(* trigger queued Hard Reset and both scores are 0                         *)
C22_Witness ==
    /\ Len(state.teams) = 2
    /\ host_calls = 0
    /\ state.phase.tag = "Selecting"
    /\ state.event_state.questions_answered = TriggerInterval
    /\ state.event_state.queued_event = "HardReset"
    /\ AllScoresZero(state)
    /\ \A c \in 1..TriggerInterval : get_clue(state, <<1, c>>).solved


-----------------------------------------------------------------------------
(* Score Steal on scores the host has set: teams are added, the host sets  *)
(* scores with ManualPointsAdjustment, triggers Score Steal and resolves   *)
(* it, at most MaxStealCalls times                                         *)
StealPoints == {-300, -100, 200, 1000, 16777219}

InitSteal ==
    /\ state = NewGameState(InitialBoard)
    /\ host_calls = 0

StealAddTeam ==
    \E name \in Names : \E o \in handle_add_team(state, name) :
        /\ Len(o.state.teams) <= MaxStealTeams
        /\ state' = o.state
        /\ UNCHANGED host_calls

StealManualPointsAdjustment ==
    \E team_id \in TeamIdsOf(state.teams) : \E new_points \in StealPoints :
        \E o \in handle_manual_points_adjustment(state, team_id, new_points) :
            /\ state' = o.state
            /\ UNCHANGED host_calls

StealTriggerEvent ==
    /\ host_calls < MaxStealCalls
    /\ \E o \in handle_trigger_event(state, "ScoreSteal") :
          /\ state' = o.state
          /\ host_calls' = host_calls + 1

StealResolveEvent ==
    /\ state.event_state.active_event # None
    /\ \E o \in handle_resolve_event(state) :
          /\ state' = o.state
          /\ UNCHANGED host_calls

NextSteal ==
    \/ StealAddTeam
    \/ StealManualPointsAdjustment
    \/ StealTriggerEvent
    \/ StealResolveEvent

SpecSteal == InitSteal /\ [][NextSteal]_vars


-----------------------------------------------------------------------------
RECURSIVE SumScores(_)
SumScores(teams) ==
    IF teams = <<>> THEN 0 ELSE Head(teams).score + SumScores(Tail(teams))

ScoreSet(teams) == {teams[i].score : i \in DOMAIN teams}

(* the transfer of `amount` from team v to team t, with its snapshot *)
Transferred(s, s2, t, v, amount) ==
    /\ s2.teams[v].score = s.teams[v].score - amount
    /\ s2.teams[t].score = s.teams[t].score + amount
    /\ \A i \in DOMAIN s.teams \ {t, v} : s2.teams[i] = s.teams[i]
    /\ DOMAIN s2.teams = DOMAIN s.teams
    /\ SumScores(s2.teams) = SumScores(s.teams)
    /\ s2.event_state.last_steal =
          <<[thief_id |-> s.teams[t].id, thief_name |-> s.teams[t].name,
             victim_id |-> s.teams[v].id, victim_name |-> s.teams[v].name,
             amount |-> amount]>>

(* C23: when Score Steal is applied with at least two teams whose lowest   *)
(* and highest scores differ, floor(20% of the highest score) moves from a *)
(* highest-scoring team to a lowest-scoring team, every other score and    *)
(* the sum of the scores are unchanged, and the snapshot names the lowest  *)
(* team as thief, the highest as victim, and that amount.                  *)
C23_ScoreSteal ==
    (/\ Len(state.teams) >= 2
     /\ Cardinality(ScoreSet(state.teams)) >= 2
     /\ state.event_state.active_event = None)
    => \A o \in handle_trigger_event(state, "ScoreSteal") :
          LET highest == MaxOf(ScoreSet(state.teams))
              lowest == MinOf(ScoreSet(state.teams))
              amount == (highest * StealPercent) \div 100
          IN  /\ ~IsError(o)
              /\ \E t, v \in DOMAIN state.teams :
                    /\ state.teams[t].score = lowest
                    /\ state.teams[v].score = highest
                    /\ Transferred(state, o.state, t, v, amount)


(* C24: when Score Steal is applied with fewer than two teams, or with all *)
(* team scores equal, no score changes and no snapshot is recorded: the    *)
(* teams are as before and last_steal keeps its previous value.            *)
C24_NoSteal ==
    (/\ \/ Len(state.teams) < 2
        \/ Cardinality(ScoreSet(state.teams)) = 1
     /\ state.event_state.active_event = None)
    => \A o \in handle_trigger_event(state, "ScoreSteal") :
          /\ ~IsError(o)
          /\ o.state.teams = state.teams
          /\ o.state.event_state.last_steal = state.event_state.last_steal
          /\ \A i \in DOMAIN o.effects :
                o.effects[i].type \notin {"ScoreChanged", "ScoreStealApplied"}

(* a second Score Steal was triggered with both teams at 1000: the scores  *)
(* are still equal and the snapshot is still the one of the first steal    *)
C24_Witness ==
    /\ host_calls = MaxStealCalls
    /\ state.event_state.active_event = "ScoreSteal"
    /\ state.event_state.event_history = <<"ScoreSteal", "ScoreSteal">>
    /\ Len(state.teams) = 2
    /\ \A i \in DOMAIN state.teams : state.teams[i].score = 1000
    /\ state.event_state.last_steal # <<>>
    /\ state.event_state.last_steal[1].amount = 200


-----------------------------------------------------------------------------
(* C25: with Double Points active or with no event active, an accepted     *)
(* correct answer of the owner and an accepted correct steal add the       *)
(* points of the clue to the acting team's score, and the owner's final    *)
(* incorrect answer takes them from it: twice the points under Double      *)
(* Points, exactly the points with no event.  No other score changes.      *)
C25_DoublePointsAmounts ==
    state.event_state.active_event \in {None, "DoublePoints"} =>
        \A a \in ActionsOf("AnswerCorrect") \cup ActionsOf("AnswerIncorrect")
                 \cup ActionsOf("StealAttempt") :
            HasClue(state, a.clue) =>
                \A o \in handle(state, a) :
                    LET points == get_clue(state, a.clue).points
                        amount == IF state.event_state.active_event = "DoublePoints"
                                  THEN 2 * points ELSE points
                        before == get_team_score(state.teams, a.team_id)
                        after == get_team_score(o.state.teams, a.team_id)
                    IN  ~IsError(o) =>
                          /\ OtherScores(o.state.teams, a.team_id) =
                                OtherScores(state.teams, a.team_id)
                          /\ a.type = "AnswerCorrect" => after = before + amount
                          /\ (a.type = "StealAttempt" /\ a.correct) =>
                                after = before + amount
                          /\ (/\ a.type = "AnswerIncorrect"
                              /\ state.phase.attempt_count = state.phase.max_attempts)
                             => after = before - amount

(* under Double Points the owner missed the 500-point clue and lost 1000,  *)
(* and another team stole it for 1000                                      *)
C25_Witness ==
    /\ state.phase.tag = "Resolved"
    /\ state.phase.clue = <<1, 1>>
    /\ Len(state.teams) = 2
    /\ state.event_state.event_history = <<"DoublePoints">>
    /\ \E i, j \in DOMAIN state.teams :
          /\ state.teams[i].score = -(2 * HighValueThreshold)
          /\ state.teams[j].score = 2 * HighValueThreshold


-----------------------------------------------------------------------------
(* the Resolved states a shown clue can reach when the owner answers and   *)
(* then each team whose turn it is to steal answers                        *)
RECURSIVE ResolvedAfter(_)
ResolvedAfter(s) ==
    CASE s.phase.tag = "Showing" ->
           UNION {ResolvedAfter(o.state) :
                    o \in {r \in handle_answer_correct(
                                     s, s.phase.clue, s.phase.owner_team_id)
                                 \cup handle_answer_incorrect(
                                     s, s.phase.clue, s.phase.owner_team_id) :
                             ~IsError(r)}}
      [] s.phase.tag = "Steal" ->
           UNION {ResolvedAfter(o.state) :
                    o \in {r \in handle_steal_attempt(
                                     s, s.phase.clue, s.phase.current, TRUE)
                                 \cup handle_steal_attempt(
                                     s, s.phase.clue, s.phase.current, FALSE) :
                             ~IsError(r)}}
      [] s.phase.tag = "Resolved" -> {s}
      [] OTHER -> {}

(* C26: Double Points is scoped to one clue: when a clue is selected while *)
(* Double Points is active, Double Points is no longer active in any       *)
(* Resolved state the clue reaches, whether the owner answers correctly,   *)
(* a steal is correct, or every steal fails.                               *)
C26_DoublePointsOneClue ==
    (/\ state.phase.tag = "Selecting"
     /\ state.event_state.active_event = "DoublePoints")
    => \A a \in ActionsOf("SelectClue") : \A o \in handle(state, a) :
          ~IsError(o) =>
              \A r \in ResolvedAfter(o.state) :
                  r.event_state.active_event # "DoublePoints"


-----------------------------------------------------------------------------
(* every clue of the board carries the text it was authored with *)
AuthoredText(s) ==
    \A clue \in BoardCoords :
        /\ get_clue(s, clue).question = InitialBoard[clue[1]].clues[clue[2]].question
        /\ get_clue(s, clue).answer = InitialBoard[clue[1]].clues[clue[2]].answer

(* C27: Reverse Question swaps the question and the answer of a clue       *)
(* selected while it is active and swaps them back exactly once when the   *)
(* clue resolves, so in every reachable Lobby, Selecting and Resolved      *)
(* state every clue's question and answer are the authored text.           *)
C27_TextRestored ==
    state.phase.tag \in {"Lobby", "Selecting", "Resolved"} => AuthoredText(state)


-----------------------------------------------------------------------------
(* C28: TriggerEvent while an event is active returns EventAlreadyActive   *)
(* and leaves the whole state as it was; with no event active it succeeds  *)
(* in whatever phase, keeps the phase, makes the event the active event    *)
(* and appends it to the history, and leaves the queued slot as it was.    *)
C28_TriggerEvent ==
    \A a \in ActionsOf("TriggerEvent") : \A o \in handle(state, a) :
        LET es == state.event_state
            es2 == o.state.event_state
        IN  IF es.active_event # None
            THEN /\ o.kind = "EventAlreadyActive"
                 /\ o.state = state
            ELSE /\ ~IsError(o)
                 /\ o.state.phase = state.phase
                 /\ o.new_phase = state.phase
                 /\ es2.active_event = a.event
                 /\ es2.event_history = Append(es.event_history, a.event)
                 /\ es2.queued_event = es.queued_event

(* an event was triggered while teams were stealing a clue *)
C28_Witness ==
    /\ state.phase.tag = "Steal"
    /\ host_calls = 1
    /\ state.event_state.active_event = "ScoreSteal"
    /\ state.event_state.event_history = <<"ScoreSteal">>
    /\ state.event_state.queued_event = None
    /\ ~state.event_state.animation_playing


-----------------------------------------------------------------------------
(* C29: ManualPointsAdjustment succeeds, in whatever phase, exactly when   *)
(* the team id exists.  Then that team's score is the given value,         *)
(* negative or not, nothing else in the state changes, and the single      *)
(* effect reports the team, its old score and its new score.  For an       *)
(* unknown id it returns InvalidAction and nothing changes.                *)
C29_ManualPointsAdjustment ==
    \A a \in ActionsOf("ManualPointsAdjustment") : \A o \in handle(state, a) :
        IF a.team_id \in TeamIdsOf(state.teams)
        THEN LET i == CHOOSE j \in DOMAIN state.teams :
                          state.teams[j].id = a.team_id
             IN  /\ ~IsError(o)
                 /\ o.new_phase = state.phase
                 /\ o.state.teams[i].score = a.new_points
                 /\ o.state = [state EXCEPT !.teams[i].score = a.new_points]
                 /\ o.effects = <<[type |-> "ManualScoreAdjustment",
                                   team_id |-> a.team_id,
                                   old_score |-> state.teams[i].score,
                                   new_score |-> a.new_points]>>
        ELSE /\ o.kind = "InvalidAction"
             /\ o.state = state

(* the host has set the score of a team to -100 while the other team, who  *)
(* has won the 501-point clue, is shown a clue                             *)
C29_Witness ==
    /\ state.phase.tag = "Showing"
    /\ host_calls = 1
    /\ state.event_state.event_history = <<>>
    /\ state.event_state.queued_event = None
    /\ \E i, j \in DOMAIN state.teams :
          /\ state.teams[i].score = -100
          /\ state.teams[j].score = 501


-----------------------------------------------------------------------------
(* C30: from any phase ReturnToConfig succeeds, with no guard, and moves   *)
(* the game to the Finished phase; the teams, the board and the event      *)
(* state are unchanged.                                                    *)
C30_ReturnToConfig ==
    \A a \in ActionsOf("ReturnToConfig") : \A o \in handle(state, a) :
        /\ ~IsError(o)
        /\ o.new_phase = Finished
        /\ o.state.phase = Finished
        /\ o.state.teams = state.teams
        /\ o.state.board = state.board
        /\ o.state.event_state = state.event_state


-----------------------------------------------------------------------------
ClueActions ==
    ActionsOf("SelectClue") \cup ActionsOf("AnswerCorrect")
    \cup ActionsOf("AnswerIncorrect") \cup ActionsOf("StealAttempt")
    \cup ActionsOf("CloseClue")

(* C31: while the phase is Lobby, every SelectClue, AnswerCorrect,         *)
(* AnswerIncorrect, StealAttempt and CloseClue, by whatever team and for   *)
(* whatever clue, is rejected with InvalidAction and the phase stays       *)
(* Lobby.                                                                  *)
C31_LobbyRejectsClueActions ==
    state.phase.tag = "Lobby" =>
        \A a \in ClueActions : \A o \in handle(state, a) :
            /\ o.kind = "InvalidAction"
            /\ o.action = a.type
            /\ o.state.phase = Lobby
            /\ o.state = state

(* a lobby with two teams, whose ids the rejected actions can name, after  *)
(* the host has adjusted a score                                           *)
C31_Witness ==
    /\ state.phase.tag = "Lobby"
    /\ Len(state.teams) = 2
    /\ host_calls = 1
    /\ \E i \in DOMAIN state.teams : state.teams[i].score = 1000


-----------------------------------------------------------------------------
(* the action activates an event: PlayEventAnimation of Double Points or   *)
(* Reverse Question, or an accepted TriggerEvent                           *)
Activates(a, o) ==
    /\ ~IsError(o)
    /\ \/ a.type = "PlayEventAnimation"
          /\ a.event \in {"DoublePoints", "ReverseQuestion"}
       \/ a.type = "TriggerEvent"

(* C32: the event history is append-only.  Every action leaves the history *)
(* it found as a prefix of the new one: an activation appends exactly the  *)
(* activated event and every other action leaves the history as it was.   *)
(* Whenever an event is active it is the last entry of the history.        *)
C32_HistoryAppendOnly ==
    /\ state.event_state.active_event # None =>
          /\ state.event_state.event_history # <<>>
          /\ state.event_state.event_history[Len(state.event_state.event_history)]
                = state.event_state.active_event
    /\ \A a \in GameAction : \A o \in handle(state, a) :
          o.state.event_state.event_history =
              IF Activates(a, o)
              THEN Append(state.event_state.event_history, a.event)
              ELSE state.event_state.event_history

(* Double Points was triggered and ended with its clue, then Score Steal   *)
(* was triggered: two entries, the last one the active event               *)
C32_Witness ==
    /\ state.event_state.event_history = <<"DoublePoints", "ScoreSteal">>
    /\ state.event_state.active_event = "ScoreSteal"
    /\ host_calls = 2


-----------------------------------------------------------------------------
(* C33: AcknowledgeEvent succeeds in every state and changes nothing.      *)
(* ResolveEvent succeeds in every state, sets the active event to none and *)
(* changes nothing else: history, queued slot, counter, clue text, scores  *)
(* and phase are as before.                                                *)
C33_AcknowledgeAndResolve ==
    /\ \A a \in ActionsOf("AcknowledgeEvent") : \A o \in handle(state, a) :
          /\ o.kind = "Success"
          /\ o.new_phase = state.phase
          /\ o.state = state
    /\ \A a \in ActionsOf("ResolveEvent") : \A o \in handle(state, a) :
          /\ o.kind = "Success"
          /\ o.new_phase = state.phase
          /\ o.state.event_state.active_event = None
          /\ o.state = [state EXCEPT !.event_state.active_event = None]

(* Reverse Question was resolved by the host while the clue it had swapped *)
(* was shown: the event is over, the clue still shows the swapped text     *)
C33_Witness ==
    /\ state.phase.tag = "Showing"
    /\ state.event_state.active_event = None
    /\ state.event_state.event_history = <<"ReverseQuestion">>
    /\ get_clue(state, state.phase.clue).question = "A"


-----------------------------------------------------------------------------
(* state.rs, events.rs: the serde form of the game state.  A JSON object   *)
(* is a function from member names to values; an Option member is written *)
(* as the sequence of its values: <<>> for null, <<v>> for Some(v).        *)
Null == <<>>

EventState_default == NewEventState

EventState_serialize(es) ==
    [questions_answered |-> es.questions_answered,
     active_event |-> IF es.active_event = None THEN Null ELSE <<es.active_event>>,
     queued_event |-> IF es.queued_event = None THEN Null ELSE <<es.queued_event>>,
     event_history |-> es.event_history,
     animation_playing |-> es.animation_playing,
     last_steal |-> IF es.last_steal = <<>> THEN Null ELSE <<es.last_steal[1]>>]

(* <<es>> for Ok(es), <<>> for an error; last_steal is #[serde(default)],  *)
(* and a missing Option member reads as None                               *)
EventState_deserialize(j) ==
    IF {"questions_answered", "event_history", "animation_playing"}
           \subseteq DOMAIN j
    THEN LET option(key) == IF key \in DOMAIN j /\ j[key] # Null
                            THEN j[key][1] ELSE None
         IN  <<[questions_answered |-> j.questions_answered,
                active_event |-> option("active_event"),
                queued_event |-> option("queued_event"),
                event_history |-> j.event_history,
                animation_playing |-> j.animation_playing,
                last_steal |-> IF "last_steal" \in DOMAIN j /\ j.last_steal # Null
                               THEN <<j.last_steal[1]>> ELSE <<>>]>>
    ELSE <<>>

GameState_serialize(s) ==
    [board |-> s.board, teams |-> s.teams, phase |-> s.phase,
     active_team |-> s.active_team,
     surprise |-> [pending |-> Null, expires_after_clues |-> 0],
     ui_map |-> [logical_to_visual |-> <<>>],
     event_state |-> EventState_serialize(s.event_state)]

(* the snapshot without one of its members *)
without_member(j, key) == [f \in DOMAIN j \ {key} |-> j[f]]

(* deserialization in which event_state is a required member *)
GameState_deserialize_event_state_required(j) ==
    IF {"board", "teams", "phase", "active_team", "surprise", "ui_map",
        "event_state"} \subseteq DOMAIN j
    THEN LET es == EventState_deserialize(j.event_state)
         IN  IF es = <<>> THEN <<>>
             ELSE <<[board |-> j.board, teams |-> j.teams, phase |-> j.phase,
                     active_team |-> j.active_team, event_state |-> es[1]]>>
    ELSE <<>>

(* <<state>> for Ok(state), <<>> for an error; event_state is              *)
(* #[serde(default)]                                                       *)
GameState_deserialize(j) ==
    IF {"board", "teams", "phase", "active_team", "surprise", "ui_map"}
           \subseteq DOMAIN j
    THEN LET es == IF "event_state" \in DOMAIN j
                   THEN EventState_deserialize(j.event_state)
                   ELSE <<EventState_default>>
         IN  IF es = <<>> THEN <<>>
             ELSE <<[board |-> j.board, teams |-> j.teams, phase |-> j.phase,
                     active_team |-> j.active_team, event_state |-> es[1]]>>
    ELSE <<>>

(* The game of SpecEvents, in which the host may also load the game from a *)
(* snapshot of it that has no event_state member                           *)
LoadOldSnapshot ==
    /\ host_calls < MaxEventHostCalls
    /\ \E loaded \in {GameState_deserialize(
                          without_member(GameState_serialize(state), "event_state"))} :
          /\ loaded # <<>>
          /\ state' = loaded[1]
          /\ host_calls' = host_calls + 1

NextSnapshot ==
    \/ EventsAddTeam
    \/ EventsStartGame
    \/ EventsSelectClue
    \/ EventsAnswerCorrect
    \/ EventsCloseClue
    \/ EventsPlayEventAnimation
    \/ EventsTriggerEvent
    \/ EventsResolveEvent
    \/ LoadOldSnapshot

SpecSnapshot == InitEvents /\ [][NextSnapshot]_vars

(* C34: a snapshot of a game state that lacks the event_state member       *)
(* deserializes successfully, to the same board, teams, phase and active   *)
(* team with the default event state: counter 0, no active event, no       *)
(* queued event, empty history.                                            *)
C34_OldSnapshotLoads ==
    LET loaded == GameState_deserialize(
                      without_member(GameState_serialize(state), "event_state"))
    IN  /\ loaded # <<>>
        /\ loaded[1].event_state.questions_answered = 0
        /\ loaded[1].event_state.active_event = None
        /\ loaded[1].event_state.queued_event = None
        /\ loaded[1].event_state.event_history = <<>>
        /\ loaded[1] = [state EXCEPT !.event_state = NewEventState]

(* the game was loaded from an old snapshot taken after four clues and an  *)
(* event: the clues are solved and the event state is the default one      *)
C34_Witness ==
    /\ host_calls = 2
    /\ get_clue(state, <<1, TriggerInterval>>).solved
    /\ state.event_state = NewEventState
    /\ \E i \in DOMAIN state.teams : state.teams[i].score > 0


-----------------------------------------------------------------------------
(* C35: in every reachable Showing phase the attempt counter is at least 1 *)
(* and at most the maximum attempts, and no action changes the maximum     *)
(* attempts while the same clue stays shown.                               *)
C35_AttemptCounter ==
    state.phase.tag = "Showing" =>
        /\ 1 <= state.phase.attempt_count
        /\ state.phase.attempt_count <= state.phase.max_attempts
        /\ \A a \in GameAction : \A o \in handle(state, a) :
              (/\ o.state.phase.tag = "Showing"
               /\ o.state.phase.clue = state.phase.clue)
              => /\ o.state.phase.max_attempts = state.phase.max_attempts
                 /\ 1 <= o.state.phase.attempt_count
                 /\ o.state.phase.attempt_count <= o.state.phase.max_attempts

(* the owner has missed the 501-point clue once and is on the second of    *)
(* two attempts                                                            *)
C35_Witness ==
    /\ state.phase.tag = "Showing"
    /\ state.phase.clue = <<1, 2>>
    /\ state.phase.attempt_count = 2
    /\ state.phase.max_attempts = 2
    /\ host_calls = 0


-----------------------------------------------------------------------------
AnswerActions ==
    ActionsOf("AnswerCorrect") \cup ActionsOf("AnswerIncorrect")
    \cup ActionsOf("StealAttempt")

(* C36: AnswerCorrect, AnswerIncorrect and StealAttempt act only on the    *)
(* clue the phase carries.  Whatever coordinates the action names, the     *)
(* clue of the next Showing, Steal or Resolved phase is the clue of the    *)
(* current one and no other clue of the board changes; an action naming    *)
(* other coordinates changes no score; and in every reachable Resolved     *)
(* state the clue of the phase exists and is solved.                       *)
C36_PhaseClueOnly ==
    /\ state.phase.tag = "Resolved" =>
          /\ HasClue(state, state.phase.clue)
          /\ get_clue(state, state.phase.clue).solved
    /\ state.phase.tag \in {"Showing", "Steal"} =>
          \A a \in AnswerActions : \A o \in handle(state, a) :
              /\ o.state.phase.tag \in {"Showing", "Steal", "Resolved"}
              /\ o.state.phase.clue = state.phase.clue
              /\ \A c \in BoardCoords \ {state.phase.clue} :
                    get_clue(o.state, c) = get_clue(state, c)
              /\ a.clue # state.phase.clue => o.state.teams = state.teams


-----------------------------------------------------------------------------
(* the team ids the phase carries *)
PhaseTeamIds(phase) ==
    CASE phase.tag = "Selecting" -> {phase.team_id}
      [] phase.tag = "Showing" -> {phase.owner_team_id}
      [] phase.tag = "Steal" ->
           {phase.current, phase.owner_team_id}
           \cup {phase.queue[i] : i \in DOMAIN phase.queue}
      [] phase.tag = "Resolved" -> {phase.next_team_id}
      [] OTHER -> {}

(* C37: in every state reachable after StartGame, every team id the phase  *)
(* carries (selecting team, owner, current contender, queue members,       *)
(* next team) and the active-team id are ids of teams in the team list.    *)
C37_PhaseTeamsExist ==
    state.phase.tag # "Lobby" =>
        /\ PhaseTeamIds(state.phase) \subseteq TeamIdsOf(state.teams)
        /\ state.active_team \in TeamIdsOf(state.teams)


-----------------------------------------------------------------------------
(* the answer actions a clue may still take before it is Resolved: the     *)
(* owner's remaining attempts and one steal attempt of every other team in *)
(* Showing, the current contender's and the queued teams' attempts in Steal *)
AnswersLeft(s) ==
    CASE s.phase.tag = "Showing" ->
           (s.phase.max_attempts - s.phase.attempt_count + 1)
           + (Len(s.teams) - 1)
      [] s.phase.tag = "Steal" -> 1 + Len(s.phase.queue)
      [] OTHER -> 0

(* C38: every selected clue reaches Resolved after a bounded number of     *)
(* answer actions.  In Showing at most max_attempts owner answers remain,  *)
(* in Steal at most (number of teams - 1) steal attempts remain, and every *)
(* accepted answer or steal leaves the clue in Showing, Steal or Resolved  *)
(* with fewer answers left.  No team is due more than one steal attempt:   *)
(* the contender and the queued teams are pairwise distinct; and an        *)
(* incorrect steal that stays in Steal shortens the queue by one.          *)
C38_BoundedAnswers ==
    /\ state.phase.tag = "Showing" =>
          AnswersLeft(state) <= state.phase.max_attempts + (Len(state.teams) - 1)
    /\ state.phase.tag = "Steal" =>
          /\ AnswersLeft(state) <= Len(state.teams) - 1
          /\ \A i \in DOMAIN state.phase.queue :
                /\ state.phase.queue[i] # state.phase.current
                /\ \A j \in DOMAIN state.phase.queue :
                      state.phase.queue[i] = state.phase.queue[j] => i = j
    /\ state.phase.tag \in {"Showing", "Steal"} =>
          \A a \in AnswerActions : \A o \in handle(state, a) :
              ~IsError(o) =>
                  /\ o.state.phase.tag \in {"Showing", "Steal", "Resolved"}
                  /\ AnswersLeft(o.state) < AnswersLeft(state)
                  /\ (state.phase.tag = "Steal" /\ o.state.phase.tag = "Steal") =>
                        /\ Len(o.state.phase.queue) = Len(state.phase.queue) - 1
                        /\ o.state.phase.current \notin
                              {state.phase.current}


-----------------------------------------------------------------------------
(* the outcomes of CloseClue, for the clue of the Resolved phase, in which *)
(* the automatic trigger queued `event`                                    *)
CloseOutcomesQueueing(s, event) ==
    IF s.phase.tag # "Resolved" THEN {}
    ELSE {o \in UNION {handle_close_clue(s, s.phase.clue, n) : n \in TeamIds} :
            /\ ~IsError(o)
            /\ HasEventQueued(o)
            /\ o.state.event_state.queued_event = event}

(* C39: QueueEvent and the automatic trigger of CloseClue apply the same   *)
(* immediate effects for the same event kind.  Whenever the trigger queues *)
(* an event, QueueEvent for that event leaves the same scores and the same *)
(* steal snapshot; QueueEvent of Hard Reset leaves every score at 0;       *)
(* QueueEvent of Score Steal performs the transfer and records the         *)
(* snapshot, as the Score Steal block of CloseClue does; QueueEvent of     *)
(* Double Points or Reverse Question changes no score.                     *)
C39_QueuePathsAgree ==
    \A a \in ActionsOf("QueueEvent") : \A q \in handle(state, a) :
        /\ ~IsError(q)
        /\ q.state.event_state.queued_event = a.event
        /\ \A c \in CloseOutcomesQueueing(state, a.event) :
              /\ c.state.teams = q.state.teams
              /\ c.state.event_state.last_steal = q.state.event_state.last_steal
        /\ a.event = "HardReset" => AllScoresZero(q.state)
        /\ a.event = "ScoreSteal" =>
              /\ q.state.teams = apply_score_steal(state).state.teams
              /\ q.state.event_state.last_steal =
                    apply_score_steal(state).state.event_state.last_steal
        /\ a.event \in {"DoublePoints", "ReverseQuestion"} =>
              q.state.teams = state.teams


-----------------------------------------------------------------------------
(* C40: a Hard Reset or Score Steal that TriggerEvent has made the active  *)
(* event is not deactivated by any clue resolution: it stays the active    *)
(* event until ResolveEvent is submitted.  As long as it is active every   *)
(* TriggerEvent fails with EventAlreadyActive and no CloseClue queues an   *)
(* automatic event.                                                        *)
C40_ImmediateEventStaysActive ==
    state.event_state.active_event \in {"HardReset", "ScoreSteal"} =>
        \A a \in GameAction : \A o \in handle(state, a) :
            /\ a.type # "ResolveEvent" =>
                  o.state.event_state.active_event = state.event_state.active_event
            /\ a.type = "TriggerEvent" =>
                  /\ o.kind = "EventAlreadyActive"
                  /\ o.state = state
            /\ a.type = "CloseClue" =>
                  /\ ~IsError(o) => ~HasEventQueued(o)
                  /\ o.state.event_state.queued_event = state.event_state.queued_event

====
